---- MODULE Spec2Model ----
(***************************************************************************)
(* A model of the system monitor: SystemMonitor (system_monitor.py), its   *)
(* terminal loop main(), and the web front end (web_monitor.py) with its   *)
(* background update_loop thread and the GET / and GET /data handlers.     *)
(*                                                                         *)
(* Numbers.  Python floats are kept as fixed-point integers:               *)
(*   - percentages in thousandths of a percent (Pct(50) is 50.0 %),        *)
(*   - gigabytes in 1/1024 GB (a division of a byte count by 1024**3 is    *)
(*     exact in binary floating point; the byte counts drawn here are      *)
(*     multiples of one MiB, so the fixed-point quotient is exact too),    *)
(*   - MHz and degrees Celsius as integers.                                *)
(***************************************************************************)
EXTENDS Integers, Sequences, FiniteSets, TLC

\* The number of sampling cycles main's loop may start in a run.
MaxCycles == 2

\* The number of sampling cycles update_loop may start in a run.
MaxHttpCycles == 1

VARIABLES
    NVIDIA_AVAILABLE,    \* import pynvml succeeded
    INTEL_GPU_AVAILABLE, \* import intel_gpu_top succeeded
    nvDevice,            \* the machine has an NVIDIA device
    cpuinfoReadable,     \* /proc/cpuinfo can be opened
    lspciIntel,          \* lspci -v lists an Intel graphics device
    mode,                \* "terminal" (system_monitor.main) or "http" (web_monitor)
    system_info,         \* monitor.system_info, the shared SystemInfo
    pc,                  \* the statement the sampling thread executes next
    hung,                \* the sampling thread is inside a call that never returns
    mem,                 \* local of update_ram_info
    memory,              \* local of update_nvidia_gpu_info
    nvmlRef,             \* nvmlInit calls not yet matched by nvmlShutdown
    cycle,               \* update_all calls started
    log,                 \* the provider calls of the current update_all, with their results
    stopRequested,       \* Ctrl-C was pressed
    out,                 \* what the last step wrote to the terminal, if anything
    rpc,                 \* the request handler: "idle", "data", "json" or "html"
    resp,                \* the response the handler is building
    published            \* HTTP mode: what /data held each time update_all returned

vars == <<NVIDIA_AVAILABLE, INTEL_GPU_AVAILABLE, nvDevice, cpuinfoReadable, lspciIntel,
          mode, system_info, pc, hung, mem, memory, nvmlRef, cycle, log, stopRequested,
          out, rpc, resp, published>>

-----------------------------------------------------------------------------
(* Values *)

Pct(n) == n * 1000

GiB == 1024 * 1024 * 1024

MiB == 1024 * 1024

Min2(a, b) == IF a <= b THEN a ELSE b

\* bytes / (1024**3), in 1/1024 GB
ToGB(bytes) == bytes \div MiB

None == [none |-> TRUE]

\* @dataclass SystemInfo, with its defaults
SystemInfo ==
    [cpu_name |-> "", cpu_cores |-> 0, cpu_threads |-> 0,
     cpu_usage |-> 0, cpu_freq |-> 0,
     ram_total |-> 0, ram_used |-> 0, ram_percent |-> 0,
     gpu_intel_name |-> "", gpu_intel_usage |-> 0, gpu_intel_mem_used |-> 0,
     gpu_nvidia_name |-> "", gpu_nvidia_usage |-> 0, gpu_nvidia_mem_used |-> 0,
     gpu_nvidia_mem_total |-> 0, gpu_nvidia_temp |-> 0]

\* The attributes get_data reads, in the order the dict display evaluates them.
DataFields ==
    <<"cpu_usage", "cpu_freq", "ram_used", "ram_total", "ram_percent",
      "gpu_intel_usage", "gpu_nvidia_usage", "gpu_nvidia_mem_used",
      "gpu_nvidia_mem_total", "gpu_nvidia_temp">>

\* What /data returns when every attribute is read from the same state.
DataOf(info) == [i \in 1..Len(DataFields) |-> info[DataFields[i]]]

(* Valid provider readings. *)

\* psutil.cpu_percent(interval=0.1)
CpuPercents == {Pct(25), Pct(100)}

\* psutil.cpu_freq().current, MHz
CpuFreqs == {2400}

\* psutil.virtual_memory(): total and used in bytes, percent
MemReadings ==
    {[total |-> GiB, used |-> GiB, percent |-> Pct(100)],
     [total |-> GiB \div 2, used |-> GiB \div 4, percent |-> Pct(75)]}

\* /sys/class/drm/card0/gt_cur_freq_mhz
IntelFreqs == {350, 200000}

\* nvmlDeviceGetUtilizationRates(handle).gpu, percent
NvidiaUtils == {0, 70}

\* nvmlDeviceGetMemoryInfo(handle): used and total in bytes
NvidiaMemReadings ==
    {[used |-> GiB \div 4, total |-> GiB],
     [used |-> GiB, total |-> GiB]}

\* nvmlDeviceGetTemperature(handle, NVML_TEMPERATURE_GPU)
NvidiaTemps == {60}

-----------------------------------------------------------------------------
(* The sampling thread: construction, then the loop of main / update_loop *)

NoOutput == [kind |-> "none"]

SchedVars == <<system_info, pc, hung, mem, memory, nvmlRef, cycle, log, out, published>>

EnvVars == <<NVIDIA_AVAILABLE, INTEL_GPU_AVAILABLE, nvDevice, cpuinfoReadable,
             lspciIntel, mode>>

WebVars == <<rpc, resp>>

Init ==
    /\ NVIDIA_AVAILABLE \in BOOLEAN
    /\ INTEL_GPU_AVAILABLE \in BOOLEAN
    /\ nvDevice \in BOOLEAN
    /\ cpuinfoReadable \in BOOLEAN
    /\ lspciIntel \in BOOLEAN
    /\ mode \in {"terminal", "http"}
    /\ system_info = SystemInfo
    /\ pc = "init_cpu"
    /\ hung = FALSE
    /\ mem = None
    /\ memory = None
    /\ nvmlRef = 0
    /\ cycle = 0
    /\ log = <<>>
    /\ stopRequested = FALSE
    /\ out = NoOutput
    /\ rpc = "idle"
    /\ resp = <<>>
    /\ published = {}

\* SystemMonitor._init_cpu_info: /proc/cpuinfo and psutil.cpu_count, or the
\* exception handler when /proc/cpuinfo cannot be opened.
InitCpuInfo ==
    /\ pc = "init_cpu"
    /\ system_info' =
          IF cpuinfoReadable
          THEN [system_info EXCEPT !.cpu_name = "Intel Core",
                                   !.cpu_cores = 4, !.cpu_threads = 8]
          ELSE system_info
    /\ pc' = "init_gpu"
    /\ UNCHANGED <<EnvVars, WebVars, published, hung, mem, memory, nvmlRef, cycle, log, stopRequested, out>>

\* The NVIDIA probe of _init_gpu_info (lines 86-93): which call raises, if any.
NvidiaProbeOutcomes ==
    IF ~NVIDIA_AVAILABLE THEN {"skipped"}
    ELSE {"nvmlInit_raises", "handle_raises"}
         \cup (IF nvDevice THEN {"name_raises", "ok"} ELSE {})

\* nvmlInit calls left open by the probe: the except clause of line 92 does not
\* shut the library down.
ProbeLeak(outcome) ==
    IF outcome \in {"handle_raises", "name_raises"} THEN 1 ELSE 0

\* SystemMonitor._init_gpu_info
InitGpuInfo ==
    /\ pc = "init_gpu"
    /\ \E o \in NvidiaProbeOutcomes :
          /\ system_info' =
                [system_info EXCEPT
                    !.gpu_intel_name = IF lspciIntel THEN "Intel UHD Graphics" ELSE @,
                    !.gpu_nvidia_name = IF o = "ok" THEN "NVIDIA GeForce" ELSE @]
          /\ nvmlRef' = nvmlRef + ProbeLeak(o)
    /\ published' = IF mode = "http" THEN {DataOf(SystemInfo)} ELSE published
    /\ pc' = "loop"
    /\ UNCHANGED <<EnvVars, WebVars, hung, mem, memory, cycle, log, stopRequested, out>>

\* The provider call `call` returned `value` (a tuple of numbers), returned
\* None, or raised.
Returned(call, value) ==
    log' = Append(log, [call |-> call, result |-> "value", value |-> value])

ReturnedNone(call) ==
    log' = Append(log, [call |-> call, result |-> "None", value |-> <<>>])

Raised(call) ==
    log' = Append(log, [call |-> call, result |-> "raised", value |-> <<>>])

\* An exception that leaves update_all: update_loop has no handler and its
\* thread ends; main catches it at line 454, prints it and returns.
Propagate ==
    /\ pc' = IF mode = "http" THEN "dead" ELSE "exited"
    /\ out' = IF mode = "http" THEN NoOutput ELSE [kind |-> "error"]

\* while True: the next update_all begins
BeginCycle ==
    /\ pc = "loop"
    /\ cycle < (IF mode = "http" THEN MaxHttpCycles ELSE MaxCycles)
    /\ cycle' = cycle + 1
    /\ log' = <<>>
    /\ pc' = "cpu_percent"
    /\ UNCHANGED <<EnvVars, WebVars, published, system_info, hung, mem, memory, nvmlRef, stopRequested, out>>

\* A provider call that does not return.
Hang ==
    /\ ~hung
    /\ pc \in {"cpu_percent", "cpu_freq", "virtual_memory", "intel_sysfs",
               "nvmlInit", "nvml_handle", "nvml_util", "nvml_meminfo",
               "nvml_temp", "nvmlShutdown"}
    /\ hung' = TRUE
    /\ UNCHANGED <<EnvVars, WebVars, published, system_info, pc, mem, memory, nvmlRef, cycle, log, stopRequested, out>>

\* update_cpu_info, line 97
CpuPercent ==
    /\ pc = "cpu_percent" /\ ~hung
    /\ \/ /\ \E v \in CpuPercents :
                /\ system_info' = [system_info EXCEPT !.cpu_usage = v]
                /\ Returned("cpu_percent", <<v>>)
          /\ pc' = "cpu_freq"
          /\ out' = out
       \/ /\ Propagate
          /\ Raised("cpu_percent")
          /\ system_info' = system_info
    /\ UNCHANGED <<EnvVars, WebVars, published, hung, mem, memory, nvmlRef, cycle, stopRequested>>

\* update_cpu_info, lines 99-104
CpuFreq ==
    /\ pc = "cpu_freq" /\ ~hung
    /\ \/ \E f \in CpuFreqs :
             /\ system_info' = [system_info EXCEPT !.cpu_freq = f]
             /\ Returned("cpu_freq", <<f>>)
       \/ /\ system_info' = system_info                            \* cpu_freq() is None
          /\ ReturnedNone("cpu_freq")
       \/ /\ system_info' = [system_info EXCEPT !.cpu_freq = 0]    \* except:
          /\ Raised("cpu_freq")
    /\ pc' = "virtual_memory"
    /\ UNCHANGED <<EnvVars, WebVars, published, hung, mem, memory, nvmlRef, cycle, stopRequested, out>>

\* update_ram_info, line 108
VirtualMemory ==
    /\ pc = "virtual_memory" /\ ~hung
    /\ \/ /\ \E m \in MemReadings : mem' = m /\ Returned("virtual_memory", <<m.total, m.used, m.percent>>)
          /\ pc' = "ram_total"
          /\ out' = out
       \/ /\ Propagate
          /\ Raised("virtual_memory")
          /\ mem' = mem
    /\ UNCHANGED <<EnvVars, WebVars, published, system_info, hung, memory, nvmlRef, cycle, stopRequested>>

\* update_ram_info, line 109
RamTotal ==
    /\ pc = "ram_total"
    /\ system_info' = [system_info EXCEPT !.ram_total = ToGB(mem.total)]
    /\ pc' = "ram_used"
    /\ UNCHANGED <<EnvVars, WebVars, published, hung, mem, memory, nvmlRef, cycle, log, stopRequested, out>>

\* update_ram_info, line 110
RamUsed ==
    /\ pc = "ram_used"
    /\ system_info' = [system_info EXCEPT !.ram_used = ToGB(mem.used)]
    /\ pc' = "ram_percent"
    /\ UNCHANGED <<EnvVars, WebVars, published, hung, mem, memory, nvmlRef, cycle, log, stopRequested, out>>

\* As RamPercent, with update_all going on to update_nvidia_gpu_info.
RamPercent_SkipsIntel ==
    /\ pc = "ram_percent"
    /\ system_info' = [system_info EXCEPT !.ram_percent = mem.percent]
    /\ mem' = None
    /\ pc' = "nvidia_check"
    /\ UNCHANGED <<EnvVars, WebVars, published, hung, memory, nvmlRef, cycle, log, stopRequested, out>>

\* update_ram_info, line 111, and the branch of line 116
RamPercent ==
    /\ pc = "ram_percent"
    /\ system_info' = [system_info EXCEPT !.ram_percent = mem.percent]
    /\ mem' = None
    /\ pc' = IF INTEL_GPU_AVAILABLE THEN "intel_usage" ELSE "intel_sysfs"
    /\ UNCHANGED <<EnvVars, WebVars, published, hung, memory, nvmlRef, cycle, log, stopRequested, out>>

\* update_intel_gpu_info, line 120
IntelUsage ==
    /\ pc = "intel_usage"
    /\ system_info' = [system_info EXCEPT !.gpu_intel_usage = 0]
    /\ pc' = "intel_mem"
    /\ UNCHANGED <<EnvVars, WebVars, published, hung, mem, memory, nvmlRef, cycle, log, stopRequested, out>>

\* update_intel_gpu_info, line 121
IntelMem ==
    /\ pc = "intel_mem"
    /\ system_info' = [system_info EXCEPT !.gpu_intel_mem_used = 0]
    /\ pc' = "nvidia_check"
    /\ UNCHANGED <<EnvVars, WebVars, published, hung, mem, memory, nvmlRef, cycle, log, stopRequested, out>>

\* As IntelHeuristic, without the cap: freq / 1000.0
IntelHeuristic_Uncapped(freq) == freq

\* min(freq / 1000.0, 100.0): freq / 1000 percent is freq thousandths of a percent
IntelHeuristic(freq) == Min2(freq, Pct(100))

\* As IntelSysfs, with a handler that forgets the device when the read fails.
IntelSysfs_ForgetsDevice ==
    /\ pc = "intel_sysfs" /\ ~hung
    /\ \/ \E freq \in IntelFreqs :
             /\ system_info' = [system_info EXCEPT !.gpu_intel_usage = Min2(freq, Pct(100))]
             /\ Returned("gt_cur_freq_mhz", <<freq>>)
       \/ /\ system_info' = [system_info EXCEPT !.gpu_intel_usage = 0,
                                                !.gpu_intel_name = ""]
          /\ Raised("gt_cur_freq_mhz")
    /\ pc' = "nvidia_check"
    /\ UNCHANGED <<EnvVars, WebVars, published, hung, mem, memory, nvmlRef, cycle, stopRequested, out>>

\* update_intel_gpu_info, lines 126-131
IntelSysfs ==
    /\ pc = "intel_sysfs" /\ ~hung
    /\ \/ \E freq \in IntelFreqs :
             /\ system_info' = [system_info EXCEPT !.gpu_intel_usage = IntelHeuristic(freq)]
             /\ Returned("gt_cur_freq_mhz", <<freq>>)
       \/ /\ system_info' = [system_info EXCEPT !.gpu_intel_usage = 0]   \* except:
          /\ Raised("gt_cur_freq_mhz")
    /\ pc' = "nvidia_check"
    /\ UNCHANGED <<EnvVars, WebVars, published, hung, mem, memory, nvmlRef, cycle, stopRequested, out>>

\* As AfterUpdateAll, with main going to time.sleep(2) without its report.
AfterUpdateAll_NoReport == "sleep"

\* Where the loop goes on when update_all has returned: time.sleep(2) in
\* update_loop, the report in main.
AfterUpdateAll == IF mode = "http" THEN "sleep" ELSE "print"

\* update_all returns: system_info is the result of this cycle.
UpdateAllReturns ==
    /\ pc' = AfterUpdateAll
    /\ published' = IF mode = "http" THEN published \cup {DataOf(system_info)}
                                     ELSE published

\* update_nvidia_gpu_info, lines 135-136
NvidiaCheck ==
    /\ pc = "nvidia_check"
    /\ IF ~NVIDIA_AVAILABLE
       THEN UpdateAllReturns
       ELSE pc' = "nvmlInit" /\ published' = published
    /\ UNCHANGED <<EnvVars, WebVars, system_info, hung, mem, memory, nvmlRef, cycle, log, stopRequested, out>>

\* As NvidiaExcept, with no try around lines 139-159.
NvidiaExcept_Uncaught(call) ==
    /\ Raised(call)
    /\ pc' = "exited"
    /\ published' = published
    /\ memory' = None
    /\ system_info' = system_info
    /\ nvmlRef' = nvmlRef

\* except Exception as e: print(...), lines 160-161: the fields written so far
\* stay, the others keep what they held, the library is not shut down.
NvidiaExcept(call) ==
    /\ Raised(call)
    /\ UpdateAllReturns
    /\ memory' = None
    /\ system_info' = system_info
    /\ nvmlRef' = nvmlRef

\* line 139
NvmlInit ==
    /\ pc = "nvmlInit" /\ ~hung
    /\ \/ /\ pc' = "nvml_handle"
          /\ Returned("nvmlInit", <<>>)
          /\ nvmlRef' = nvmlRef + 1
          /\ UNCHANGED <<system_info, memory, published>>
       \/ NvidiaExcept("nvmlInit")
    /\ UNCHANGED <<EnvVars, WebVars, hung, mem, cycle, stopRequested, out>>

\* line 140
NvmlHandle ==
    /\ pc = "nvml_handle" /\ ~hung
    /\ \/ /\ nvDevice
          /\ pc' = "nvml_util"
          /\ Returned("nvmlDeviceGetHandleByIndex", <<>>)
          /\ UNCHANGED <<system_info, memory, nvmlRef, published>>
       \/ NvidiaExcept("nvmlDeviceGetHandleByIndex")
    /\ UNCHANGED <<EnvVars, WebVars, hung, mem, cycle, stopRequested, out>>

\* lines 143-144
NvmlUtil ==
    /\ pc = "nvml_util" /\ ~hung
    /\ \/ /\ \E u \in NvidiaUtils :
                /\ system_info' = [system_info EXCEPT !.gpu_nvidia_usage = Pct(u)]
                /\ Returned("nvmlDeviceGetUtilizationRates", <<u>>)
          /\ pc' = "nvml_meminfo"
          /\ UNCHANGED <<memory, nvmlRef, published>>
       \/ NvidiaExcept("nvmlDeviceGetUtilizationRates")
    /\ UNCHANGED <<EnvVars, WebVars, hung, mem, cycle, stopRequested, out>>

\* line 147
NvmlMemInfo ==
    /\ pc = "nvml_meminfo" /\ ~hung
    /\ \/ /\ \E m \in NvidiaMemReadings :
                memory' = m /\ Returned("nvmlDeviceGetMemoryInfo", <<m.used, m.total>>)
          /\ pc' = "nvidia_mem_used"
          /\ UNCHANGED <<system_info, nvmlRef, published>>
       \/ NvidiaExcept("nvmlDeviceGetMemoryInfo")
    /\ UNCHANGED <<EnvVars, WebVars, hung, mem, cycle, stopRequested, out>>

\* line 148
NvidiaMemUsed ==
    /\ pc = "nvidia_mem_used"
    /\ system_info' = [system_info EXCEPT !.gpu_nvidia_mem_used = ToGB(memory.used)]
    /\ pc' = "nvidia_mem_total"
    /\ UNCHANGED <<EnvVars, WebVars, published, hung, mem, memory, nvmlRef, cycle, log, stopRequested, out>>

\* line 149
NvidiaMemTotal ==
    /\ pc = "nvidia_mem_total"
    /\ system_info' = [system_info EXCEPT !.gpu_nvidia_mem_total = ToGB(memory.total)]
    /\ memory' = None
    /\ pc' = "nvml_temp"
    /\ UNCHANGED <<EnvVars, WebVars, published, hung, mem, nvmlRef, cycle, log, stopRequested, out>>

\* lines 152-157
NvmlTemp ==
    /\ pc = "nvml_temp" /\ ~hung
    /\ \/ \E t \in NvidiaTemps :
             /\ system_info' = [system_info EXCEPT !.gpu_nvidia_temp = t]
             /\ Returned("nvmlDeviceGetTemperature", <<t>>)
       \/ /\ system_info' = [system_info EXCEPT !.gpu_nvidia_temp = 0]   \* except:
          /\ Raised("nvmlDeviceGetTemperature")
    /\ pc' = "nvmlShutdown"
    /\ UNCHANGED <<EnvVars, WebVars, published, hung, mem, memory, nvmlRef, cycle, stopRequested, out>>

\* line 159
NvmlShutdown ==
    /\ pc = "nvmlShutdown" /\ ~hung
    /\ \/ /\ UpdateAllReturns
          /\ nvmlRef' = nvmlRef - 1
          /\ Returned("nvmlShutdown", <<>>)
          /\ UNCHANGED <<system_info, memory>>
       \/ NvidiaExcept("nvmlShutdown")
    /\ UNCHANGED <<EnvVars, WebVars, hung, mem, cycle, stopRequested, out>>

-----------------------------------------------------------------------------
(* Terminal mode: the report of main, lines 432-448 *)

\* f"{x:.1f}" of a percentage: tenths of a percent
Fmt1(pct) == (pct + 50) \div 100

\* f"{x:.2f}" of a size in GB: hundredths of a GB
Fmt2(gb) == (gb * 100 + 512) \div 1024

\* As Report, without the test of line 442.
Report_AlwaysNvidia(info) ==
    [kind |-> "report",
     cpu |-> <<Fmt1(info.cpu_usage), info.cpu_freq>>,
     ram |-> <<Fmt2(info.ram_used), Fmt2(info.ram_total), Fmt1(info.ram_percent)>>,
     intel |-> IF info.gpu_intel_name # "" THEN <<Fmt1(info.gpu_intel_usage)>> ELSE <<>>,
     nvidia |-> <<Fmt1(info.gpu_nvidia_usage), Fmt2(info.gpu_nvidia_mem_used),
                  info.gpu_nvidia_temp>>]

Report(info) ==
    [kind |-> "report",
     cpu |-> <<Fmt1(info.cpu_usage), info.cpu_freq>>,
     ram |-> <<Fmt2(info.ram_used), Fmt2(info.ram_total), Fmt1(info.ram_percent)>>,
     intel |-> IF info.gpu_intel_name # "" THEN <<Fmt1(info.gpu_intel_usage)>> ELSE <<>>,
     nvidia |-> IF info.gpu_nvidia_name # ""
                THEN <<Fmt1(info.gpu_nvidia_usage), Fmt2(info.gpu_nvidia_mem_used),
                       info.gpu_nvidia_temp>>
                ELSE <<>>]

\* main, lines 431-448
PrintReport ==
    /\ pc = "print"
    /\ out' = Report(system_info)
    /\ pc' = "sleep"
    /\ UNCHANGED <<EnvVars, WebVars, published, system_info, hung, mem, memory, nvmlRef, cycle, log, stopRequested>>

\* time.sleep(2) returns: line 450 of main, line 18 of update_loop
Sleep ==
    /\ pc = "sleep"
    /\ pc' = "loop"
    /\ out' = NoOutput
    /\ UNCHANGED <<EnvVars, WebVars, published, system_info, hung, mem, memory, nvmlRef, cycle, log, stopRequested>>

-----------------------------------------------------------------------------
(* Cancellation *)

LoopPcs ==
    {"loop", "cpu_percent", "cpu_freq", "virtual_memory", "ram_total", "ram_used",
     "ram_percent", "intel_usage", "intel_mem", "intel_sysfs", "nvidia_check",
     "nvmlInit", "nvml_handle", "nvml_util", "nvml_meminfo", "nvidia_mem_used",
     "nvidia_mem_total", "nvml_temp", "nvmlShutdown", "print", "sleep"}

\* Ctrl-C in terminal mode raises KeyboardInterrupt in the statement main's
\* thread is executing.  The bare "except:" clauses of lines 103, 130 and 156
\* catch it as they catch any failure of the call they guard; "except Exception"
\* (lines 122, 160) does not, and it reaches line 452 of main.
KeyboardInterrupt ==
    /\ mode = "terminal"
    /\ ~stopRequested
    /\ pc \in LoopPcs
    /\ ~hung
    /\ stopRequested' = TRUE
    /\ \/ /\ pc = "cpu_freq"
          /\ system_info' = [system_info EXCEPT !.cpu_freq = 0]
          /\ pc' = "virtual_memory"
          /\ Raised("cpu_freq")
          /\ UNCHANGED <<out, memory>>
       \/ /\ pc = "intel_sysfs"
          /\ system_info' = [system_info EXCEPT !.gpu_intel_usage = 0]
          /\ pc' = "nvidia_check"
          /\ Raised("gt_cur_freq_mhz")
          /\ UNCHANGED <<out, memory>>
       \/ /\ pc = "nvml_temp"
          /\ system_info' = [system_info EXCEPT !.gpu_nvidia_temp = 0]
          /\ pc' = "nvmlShutdown"
          /\ Raised("nvmlDeviceGetTemperature")
          /\ UNCHANGED <<out, memory>>
       \/ /\ pc \notin {"cpu_freq", "intel_sysfs", "nvml_temp"}
          /\ pc' = "done"
          /\ out' = [kind |-> "bye"]
          /\ UNCHANGED <<system_info, memory, log>>
    /\ UNCHANGED <<EnvVars, WebVars, published, hung, mem, nvmlRef, cycle>>

\* Ctrl-C in HTTP mode reaches the main thread, which runs app.run; update_loop
\* reads no flag.
ServerInterrupt ==
    /\ mode = "http"
    /\ ~stopRequested
    /\ pc \in LoopPcs \cup {"dead"}
    /\ stopRequested' = TRUE
    /\ UNCHANGED <<EnvVars, WebVars, SchedVars>>

\* The main thread has returned and the interpreter exits: the daemon thread
\* (daemon=True, line 43) is stopped wherever it is.
ProcessExit ==
    /\ mode = "http"
    /\ stopRequested
    /\ pc \in LoopPcs \cup {"dead"}
    /\ pc' = "killed"
    /\ UNCHANGED <<EnvVars, WebVars, published, system_info, hung, mem, memory, nvmlRef, cycle, log, stopRequested, out>>

-----------------------------------------------------------------------------
(* HTTP mode: the request handlers of web_monitor.py *)

\* The server is accepting requests: app.run is reached after construction and
\* runs until Ctrl-C, whatever the sampling thread is doing.
Serving == mode = "http" /\ pc \in LoopPcs \cup {"dead"} /\ ~stopRequested

\* GET /data is dispatched to get_data
GetDataBegin ==
    /\ Serving
    /\ rpc = "idle"
    /\ rpc' = "data"
    /\ resp' = <<>>
    /\ UNCHANGED <<EnvVars, SchedVars, stopRequested>>

\* As ReadField, reading under a lock that update_all holds for the whole cycle.
ReadField_UnderLock ==
    /\ rpc = "data"
    /\ pc \in {"loop", "sleep", "dead"}
    /\ resp' = Append(resp, system_info[DataFields[Len(resp) + 1]])
    /\ rpc' = IF Len(resp) + 1 = Len(DataFields) THEN "json" ELSE "data"
    /\ UNCHANGED <<EnvVars, SchedVars, stopRequested>>

\* get_data, lines 29-38: one attribute of monitor.system_info is read
ReadField ==
    /\ rpc = "data"
    /\ pc # "killed"
    /\ resp' = Append(resp, system_info[DataFields[Len(resp) + 1]])
    /\ rpc' = IF Len(resp) + 1 = Len(DataFields) THEN "json" ELSE "data"
    /\ UNCHANGED <<EnvVars, SchedVars, stopRequested>>

\* The body of the response that is being sent: jsonify of the dict.
Json == [i \in 1..Len(resp) |-> resp[i]]

\* The part of get_html_report that depends on system_info (lines 310-393).
HtmlReport(info) ==
    [cpu |-> <<info.cpu_name, info.cpu_cores, info.cpu_threads>>,
     intel |-> IF info.gpu_intel_name # "" THEN info.gpu_intel_name ELSE "none found",
     nvidiaCard |-> IF info.gpu_nvidia_name # "" THEN <<info.gpu_nvidia_name>> ELSE <<>>]

\* GET /: index returns monitor.get_html_report()
Index ==
    /\ Serving
    /\ rpc = "idle"
    /\ rpc' = "html"
    /\ resp' = <<HtmlReport(system_info)>>
    /\ UNCHANGED <<EnvVars, SchedVars, stopRequested>>

\* The response has been sent.
Respond ==
    /\ rpc \in {"json", "html"}
    /\ pc # "killed"
    /\ rpc' = "idle"
    /\ resp' = <<>>
    /\ UNCHANGED <<EnvVars, SchedVars, stopRequested>>

-----------------------------------------------------------------------------

\* One statement of the loop that main and update_loop share:
\* update_all, then time.sleep(2)
SamplingStep ==
    \/ BeginCycle
    \/ CpuPercent
    \/ CpuFreq
    \/ VirtualMemory
    \/ RamTotal
    \/ RamUsed
    \/ RamPercent
    \/ IntelUsage
    \/ IntelMem
    \/ IntelSysfs
    \/ NvidiaCheck
    \/ NvmlInit
    \/ NvmlHandle
    \/ NvmlUtil
    \/ NvmlMemInfo
    \/ NvidiaMemUsed
    \/ NvidiaMemTotal
    \/ NvmlTemp
    \/ NvmlShutdown
    \/ Sleep

Construction ==
    \/ InitCpuInfo
    \/ InitGpuInfo

HandlerStep ==
    \/ GetDataBegin
    \/ ReadField
    \/ Index
    \/ Respond

(* python system_monitor.py: main *)

InitTerminal == Init /\ mode = "terminal"

Next ==
    \/ Construction
    \/ SamplingStep
    \/ PrintReport
    \/ Hang
    \/ KeyboardInterrupt

Spec == InitTerminal /\ [][Next]_vars

\* main's thread takes its next step whenever it has one
SpecLive == Spec /\ WF_vars(SamplingStep \/ PrintReport)

(* python web_monitor.py: the update_loop thread, until the process exits *)

InitUpdateLoop == Init /\ mode = "http"

NextUpdateLoop ==
    \/ Construction
    \/ SamplingStep
    \/ Hang
    \/ ServerInterrupt
    \/ ProcessExit

SpecUpdateLoop == InitUpdateLoop /\ [][NextUpdateLoop]_vars

(* python web_monitor.py: the update_loop thread and the request handlers, *)
(* on a machine whose CPU and Intel GPU are identified                     *)

InitHttp == Init /\ mode = "http" /\ cpuinfoReadable /\ lspciIntel

NextHttp ==
    \/ Construction
    \/ SamplingStep
    \/ HandlerStep

SpecHttp == InitHttp /\ [][NextHttp]_vars

-----------------------------------------------------------------------------
(* Properties *)

\* The update_all in progress, or the last one, made this call and it raised.
RaisedIn(calls) ==
    \E i \in DOMAIN log : log[i].call \in calls /\ log[i].result = "raised"

\* The update_all in progress, or the last one, made one of these calls.
Called(calls) == \E i \in DOMAIN log : log[i].call \in calls

NvmlCalls ==
    {"nvmlInit", "nvmlDeviceGetHandleByIndex", "nvmlDeviceGetUtilizationRates",
     "nvmlDeviceGetMemoryInfo", "nvmlDeviceGetTemperature", "nvmlShutdown"}

\* update_all has returned and the next one has not begun.
BetweenCycles == pc \in {"print", "sleep", "loop"} /\ cycle >= 1

\* C1: every /data response is the state of one completed sampling cycle, or
\* the initial placeholder: it is one of the states system_info was in when
\* the constructor or an update_all returned.
C1_ResponseIsOneSnapshot == rpc = "json" => Json \in published

ValidInfo(info) ==
    /\ info.ram_used <= info.ram_total
    /\ info.gpu_nvidia_mem_used <= info.gpu_nvidia_mem_total
    /\ \A f \in {"cpu_usage", "ram_percent", "gpu_intel_usage", "gpu_nvidia_usage"} :
          info[f] >= 0 /\ info[f] <= Pct(100)

\* C2: with valid provider readings, every state of the shared SystemInfo a
\* reader can observe, inside a cycle too, has used <= total for RAM and for
\* NVIDIA memory and every percentage within [0, 100].
C2_ObservableStateValid == pc \in LoopPcs => ValidInfo(system_info)

\* C3: when a vendor-library call of update_nvidia_gpu_info raised in a cycle,
\* the NVIDIA fields are zero after that cycle.
C3_FailedNvidiaSampleShowsZero ==
    (BetweenCycles /\ RaisedIn(NvmlCalls)) =>
        /\ system_info.gpu_nvidia_usage = 0
        /\ system_info.gpu_nvidia_mem_used = 0
        /\ system_info.gpu_nvidia_mem_total = 0
        /\ system_info.gpu_nvidia_temp = 0

\* C4: no provider call that raises stops the sampling loop.
C4_LoopSurvivesProviderFailure == pc \notin {"dead", "exited"}

GpuCalls == {"gt_cur_freq_mhz"} \cup NvmlCalls

\* The CPU usage and the memory fields hold what this update_all sampled.
CpuMemSampledThisCycle ==
    /\ \E i \in DOMAIN log :
          /\ log[i].call = "cpu_percent" /\ log[i].result = "value"
          /\ system_info.cpu_usage = log[i].value[1]
    /\ \E i \in DOMAIN log :
          /\ log[i].call = "virtual_memory" /\ log[i].result = "value"
          /\ system_info.ram_total = ToGB(log[i].value[1])
          /\ system_info.ram_used = ToGB(log[i].value[2])
          /\ system_info.ram_percent = log[i].value[3]
    /\ \A i \in DOMAIN log :
          log[i].call = "cpu_freq" =>
             /\ log[i].result = "value" => system_info.cpu_freq = log[i].value[1]
             /\ log[i].result = "raised" => system_info.cpu_freq = 0

\* C5: when the Intel or the NVIDIA sample raises in a cycle, no exception
\* leaves update_all, the CPU and memory fields hold the values sampled in
\* that cycle, and when update_all has returned the other GPU source has been
\* sampled too.
C5_GpuFailureIsolated ==
    RaisedIn(GpuCalls) =>
        /\ pc \notin {"exited", "dead"}
        /\ CpuMemSampledThisCycle
        /\ (pc = "print" /\ RaisedIn({"gt_cur_freq_mhz"}) /\ NVIDIA_AVAILABLE)
              => Called({"nvmlInit"})
        /\ RaisedIn(NvmlCalls) => (INTEL_GPU_AVAILABLE \/ Called({"gt_cur_freq_mhz"}))

C5_Witness ==
    /\ pc = "print"
    /\ cycle = MaxCycles
    /\ RaisedIn({"gt_cur_freq_mhz"})
    /\ RaisedIn({"nvmlDeviceGetMemoryInfo"})

\* C6: when construction left the NVIDIA source unavailable (no library, or
\* the probe failed and gpu_nvidia_name stayed empty), no update_all calls
\* into the vendor library.
C6_UnavailableNvidiaNeverProbed ==
    (pc \in LoopPcs /\ system_info.gpu_nvidia_name = "") => ~Called(NvmlCalls)

\* C7: between cycles (after the constructor, and after every update_all) no
\* nvmlInit is left without its nvmlShutdown.
C7_NoOpenHandleBetweenCycles ==
    pc \in {"loop", "print", "sleep"} => nvmlRef = 0

\* C8: once cancellation has been requested, the loop starts no further
\* sampling cycle.
C8_NoCycleAfterCancel == [][stopRequested => cycle' = cycle]_vars

\* C9: a provider call that does not return in cycle n does not stall the
\* loop: unless the user cancels, cycle n + 1 starts.
C9_HungCallDoesNotStall ==
    \A n \in 1..(MaxCycles - 1) : (hung /\ ~stopRequested /\ cycle = n) ~> (cycle = n + 1)

\* No library, or no device for nvmlDeviceGetHandleByIndex(0) to find.
NoNvidiaDevice == ~NVIDIA_AVAILABLE \/ ~nvDevice

\* C10: with no NVIDIA device, every NVIDIA value /data can read is 0, the
\* HTML page has no NVIDIA card and a printed report has no NVIDIA line.
C10_NoNvidiaDevice ==
    NoNvidiaDevice =>
        /\ \A f \in {"gpu_nvidia_usage", "gpu_nvidia_mem_used",
                     "gpu_nvidia_mem_total", "gpu_nvidia_temp"} :
              /\ system_info[f] = 0
              /\ \A i \in 1..Len(DataFields) :
                    DataFields[i] = f => DataOf(system_info)[i] = 0
        /\ HtmlReport(system_info).nvidiaCard = <<>>
        /\ out.kind = "report" => out.nvidia = <<>>

C10_Witness ==
    /\ NVIDIA_AVAILABLE
    /\ ~nvDevice
    /\ cycle = MaxCycles
    /\ out.kind = "report"
    /\ RaisedIn({"nvmlDeviceGetHandleByIndex"})

\* The four NVIDIA values of a SystemInfo: usage, memory used, memory total,
\* temperature.
NvidiaValues(info) ==
    <<info.gpu_nvidia_usage, info.gpu_nvidia_mem_used,
      info.gpu_nvidia_mem_total, info.gpu_nvidia_temp>>

\* C11: when the construction probe left gpu_nvidia_name empty (so the page
\* and the terminal omit the NVIDIA card), the four NVIDIA values stay 0 in
\* every later state, and so does what /data would report.
C11_UnnamedNvidiaStaysZero ==
    (pc \in LoopPcs /\ system_info.gpu_nvidia_name = "") =>
        /\ NvidiaValues(system_info) = <<0, 0, 0, 0>>
        /\ \A i \in 7..10 : DataOf(system_info)[i] = 0

\* The fields written by _init_cpu_info and _init_gpu_info.
StaticFields ==
    {"cpu_name", "cpu_cores", "cpu_threads", "gpu_intel_name", "gpu_nvidia_name"}

\* C12: once the constructor has returned, no step (of a sampling cycle, of
\* the report, of cancellation) changes a static field.
C12_StaticFieldsFrozen ==
    [][pc \notin {"init_cpu", "init_gpu"} =>
          \A f \in StaticFields : system_info'[f] = system_info[f]]_vars

C12_Witness ==
    /\ pc = "sleep"
    /\ cycle = MaxCycles
    /\ RaisedIn({"gt_cur_freq_mhz"})
    /\ Called({"nvmlShutdown"})
    /\ \A f \in {"cpu_name", "gpu_intel_name", "gpu_nvidia_name"} : system_info[f] # ""

\* update_all has begun and has not returned.
InUpdateAll == pc \in LoopPcs \ {"loop", "print", "sleep"}

\* C13: a step of a request handler (GET /, GET /data) changes no field of
\* SystemInfo, makes no provider call, opens no library handle and does not
\* touch the sampling thread; and a request that has been dispatched always
\* has its next step, wherever the sampling thread is.
C13_ReadersOnlyRead ==
    /\ [][(rpc' # rpc \/ resp' # resp) =>
             /\ system_info' = system_info
             /\ log' = log
             /\ nvmlRef' = nvmlRef
             /\ <<pc', hung', mem', memory', cycle'>> = <<pc, hung, mem, memory, cycle>>]_vars
    /\ [](rpc # "idle" => ENABLED HandlerStep)

C13_Witness ==
    /\ rpc = "data"
    /\ Len(resp) = 6
    /\ InUpdateAll
    /\ pc = "nvml_meminfo"

\* C14: in every snapshot /data can serve once the constructor or an
\* update_all has returned, ram_percent = 100 * ram_used / ram_total.
C14_RamPercentConsistent ==
    \A d \in published : d[5] * d[4] = Pct(100) * d[3]

\* The NVIDIA values update_nvidia_gpu_info leaves when every query succeeds
\* (lines 144, 148, 149, 155).
NvidiaAfterSample(u, m, t) == <<Pct(u), ToGB(m.used), ToGB(m.total), t>>

\* The NVIDIA values at the end of a cycle in which the device was sampled
\* and reported 0 % usage.
IdleNvidiaValues ==
    {NvidiaAfterSample(0, m, t) : m \in NvidiaMemReadings, t \in NvidiaTemps}

\* The queries whose failure leaves update_nvidia_gpu_info without a sample.
NvidiaSampleCalls ==
    {"nvmlInit", "nvmlDeviceGetHandleByIndex", "nvmlDeviceGetUtilizationRates",
     "nvmlDeviceGetMemoryInfo"}

\* C15: for a device named at startup, a cycle whose NVIDIA sample failed
\* does not end in a state that a cycle with a successful sample of 0 % usage
\* ends in.
C15_UnavailableDistinctFromIdle ==
    (BetweenCycles /\ system_info.gpu_nvidia_name # "" /\ RaisedIn(NvidiaSampleCalls)) =>
        NvidiaValues(system_info) \notin IdleNvidiaValues

\* The cpu_freq query of this update_all raised or returned None.
CpuFreqFailed ==
    \E i \in DOMAIN log : log[i].call = "cpu_freq" /\ log[i].result # "value"

\* C16: after a cycle whose cpu_freq query raised or returned None, cpu_freq
\* is 0 and cpu_usage is the value sampled in that cycle.
C16_FailedCpuFreqIsZero ==
    (BetweenCycles /\ CpuFreqFailed) =>
        /\ system_info.cpu_freq = 0
        /\ \E i \in DOMAIN log :
              /\ log[i].call = "cpu_percent" /\ log[i].result = "value"
              /\ system_info.cpu_usage = log[i].value[1]

\* The fields of a SystemInfo other than gpu_intel_usage.
ExceptIntelUsage(info) == [info EXCEPT !.gpu_intel_usage = 0]

\* C17: with no intel_gpu_top library, the Intel sample (from the read of
\* gt_cur_freq_mhz to its assignment) sets gpu_intel_usage to f / 1000 percent,
\* at most 100, when the read gave f MHz, and to 0 when the read or the parse
\* failed; it changes no other field.
C17_IntelSysfsSample ==
    [][(pc = "intel_sysfs" /\ pc' = "nvidia_check") =>
          LET e == log'[Len(log')] IN
          /\ ~INTEL_GPU_AVAILABLE
          /\ Len(log') = Len(log) + 1
          /\ e.call = "gt_cur_freq_mhz"
          /\ e.result = "value" =>
                system_info'.gpu_intel_usage =
                    (IF e.value[1] >= 100 * 1000 THEN Pct(100) ELSE e.value[1])
          /\ e.result = "raised" => system_info'.gpu_intel_usage = 0
          /\ e.result \in {"value", "raised"}
          /\ ExceptIntelUsage(system_info') = ExceptIntelUsage(system_info)]_vars

C17_Witness ==
    /\ ~INTEL_GPU_AVAILABLE
    /\ pc = "nvidia_check"
    /\ cycle = MaxCycles
    /\ \E i \in DOMAIN log :
          /\ log[i].call = "gt_cur_freq_mhz" /\ log[i].result = "value"
          /\ log[i].value[1] > 100 * 1000
    /\ system_info.gpu_intel_usage = Pct(100)

\* The statements of the sampling thread, in program order.
StatementOrder ==
    <<"init_cpu", "init_gpu", "loop", "cpu_percent", "cpu_freq", "virtual_memory",
      "ram_total", "ram_used", "ram_percent", "intel_usage", "intel_mem",
      "intel_sysfs", "nvidia_check", "nvmlInit", "nvml_handle", "nvml_util",
      "nvml_meminfo", "nvidia_mem_used", "nvidia_mem_total", "nvml_temp",
      "nvmlShutdown", "print", "sleep">>

Position(p) == CHOOSE i \in DOMAIN StatementOrder : StatementOrder[i] = p

\* The operation a statement belongs to: the constructor, the head of the
\* loop, one of the four update_* of update_all, the report, the sleep.
StageOf(p) ==
    CASE p \in {"init_cpu", "init_gpu"} -> "construction"
      [] p = "loop" -> "idle"
      [] p \in {"cpu_percent", "cpu_freq"} -> "cpu"
      [] p \in {"virtual_memory", "ram_total", "ram_used", "ram_percent"} -> "memory"
      [] p \in {"intel_usage", "intel_mem", "intel_sysfs"} -> "intel"
      [] p \in {"nvidia_check", "nvmlInit", "nvml_handle", "nvml_util", "nvml_meminfo",
                "nvidia_mem_used", "nvidia_mem_total", "nvml_temp", "nvmlShutdown"}
           -> "nvidia"
      [] p = "print" -> "publish"
      [] p = "sleep" -> "sleep"
      [] OTHER -> "ended"

\* Idle -> Sampling (CPU, memory, Intel GPU, NVIDIA GPU) -> Publishing -> Idle
StageOrder ==
    {<<"construction", "idle">>, <<"idle", "cpu">>, <<"cpu", "memory">>,
     <<"memory", "intel">>, <<"intel", "nvidia">>, <<"nvidia", "publish">>,
     <<"publish", "sleep">>, <<"sleep", "idle">>}

\* C18: every step of the loop stays in its operation, moving forward, or
\* enters the next one of Idle, CPU, memory, Intel GPU, NVIDIA GPU, report,
\* sleep, Idle (or ends the loop); no provider call is made twice in a cycle;
\* and a cycle starts only at the head of the loop, which is entered only
\* from the constructor or from the end of a sleep.
C18_SchedulerOrder ==
    [][/\ pc' # pc =>
             \/ StageOf(pc') = "ended"
             \/ StageOf(pc') = StageOf(pc) /\ Position(pc') > Position(pc)
             \/ <<StageOf(pc), StageOf(pc')>> \in StageOrder
       /\ \A i, j \in DOMAIN log' : log'[i].call = log'[j].call => i = j
       /\ cycle' # cycle =>
             /\ cycle' = cycle + 1
             /\ pc = "loop" /\ pc' = "cpu_percent"
             /\ log' = <<>>
       /\ pc' = "sleep" => (pc = "print" /\ cycle >= 1)]_vars

C18_Witness ==
    /\ pc = "cpu_percent"
    /\ cycle = MaxCycles
    /\ out.kind = "none"
    /\ system_info.gpu_nvidia_temp # 0
    /\ system_info.gpu_intel_usage # 0
    /\ system_info.ram_total # 0

\* C19: after an update_all that entered the vendor library, usage, memory
\* used and memory total were either all three written from this cycle's
\* readings, or none of them was written in this cycle.
C19_NvidiaSampleAllOrNone ==
    (BetweenCycles /\ Called({"nvmlInit"})) =>
        LET usageWritten ==
                \E i \in DOMAIN log :
                    /\ log[i].call = "nvmlDeviceGetUtilizationRates"
                    /\ log[i].result = "value"
                    /\ system_info.gpu_nvidia_usage = Pct(log[i].value[1])
            memoryWritten ==
                \E i \in DOMAIN log :
                    /\ log[i].call = "nvmlDeviceGetMemoryInfo"
                    /\ log[i].result = "value"
                    /\ system_info.gpu_nvidia_mem_used = ToGB(log[i].value[1])
                    /\ system_info.gpu_nvidia_mem_total = ToGB(log[i].value[2])
        IN  \/ usageWritten /\ memoryWritten
            \/ ~Called({"nvmlDeviceGetUtilizationRates"})
            \/ RaisedIn({"nvmlDeviceGetUtilizationRates"})

\* C20: in terminal mode a report is printed only by the statement that
\* follows the return of update_all, it shows the SystemInfo that update_all
\* left, the sleep is entered only from the report, and the next update_all
\* begins only after that sleep, when the report is complete.
C20_ReportBetweenCycles ==
    [][/\ (out'.kind = "report" /\ out' # out) =>
             /\ pc = "print" /\ pc' = "sleep"
             /\ cycle >= 1
             /\ out' = Report(system_info)
             /\ system_info' = system_info
       /\ (pc = "print" /\ pc' # pc) => out'.kind \in {"report", "bye"}
       /\ pc' = "print" => (pc # "print" /\ StageOf(pc) = "nvidia")
       /\ pc' = "sleep" => pc = "print"
       /\ pc' = "loop" => pc \in {"sleep", "init_gpu"}
       /\ cycle' # cycle => (pc = "loop" /\ out.kind = "none")]_vars

C20_Witness ==
    /\ pc = "sleep"
    /\ cycle = MaxCycles
    /\ out.kind = "report"
    /\ out = Report(system_info)
    /\ out.nvidia # <<>>
    /\ RaisedIn({"nvmlDeviceGetMemoryInfo"})

====
